---- MODULE Spec2Model ----
(***************************************************************************)
(* Marching-squares isoline extraction over a field of moving globbers     *)
(* (metaballs.c).                                                          *)
(*                                                                         *)
(* Numbers.  The program computes in C float.  Here a float is a record    *)
(* [k, v]: k = "fin" with v an integer count of a fixed quantum, or one of *)
(* the IEEE specials "inf", "ninf", "nan".  Every operation rounds its     *)
(* result to the quantum, as a float operation rounds to its mantissa.     *)
(*   lengths (globber centers, radii, sample positions): 1 unit = 0.1 m    *)
(*   weights and thresholds:                 WeightScale units = 1.0       *)
(*   lerp quotients:                         FracScale units   = 1.0       *)
(*   cell points and mesh components:        FracScale units = 1 length    *)
(*                                           unit                          *)
(* The #define constants of the program are compile-time configuration;    *)
(* the variable cfg holds one configuration, chosen at Init and never      *)
(* changed, and the definitions named after the macros read it.            *)
(***************************************************************************)
EXTENDS Integers, Sequences, FiniteSets, TLC

VARIABLES
    cfg,                            \* the #define configuration of the build
    globbers,                       \* static struct globber_t globbers[GLOB_COUNT]
    grid,                           \* grid.samples[col][row].weight
    isolines_mesh,                  \* the components written to isolines_mesh[], from index 0
    isolines_mesh_component_count,  \* static int isolines_mesh_component_count
    cell_column_cache,              \* static struct cell_t cell_column_cache[2][ROWS]
    status,                         \* "ready", or how the process ended
    ticks,                          \* calls of tick_metaballs made so far
    cell_log,                       \* history: the cells of the last tick, in processing order
    oob_writes,                     \* history: indices >= capacity written in the last tick
    prev_globbers                   \* history: the globbers before the last tick

vars == <<cfg, globbers, grid, isolines_mesh, isolines_mesh_component_count,
          cell_column_cache, status, ticks, cell_log, oob_writes, prev_globbers>>

----------------------------------------------------------------------------
(* Bounds of the model *)

MaxDim == 3          \* sample grids of 2..MaxDim columns and rows
MaxTicks == 3        \* ticks explored from each initial state
MaxCapacity == 9     \* small mesh capacities 0..MaxCapacity, next to the program's own
MaxPerturbed == 2    \* samples of an arbitrary field that differ from its base weight

----------------------------------------------------------------------------
(* float arithmetic *)

WeightScale == 1000
FracScale == 1000
DirScale == 5       \* direction components are counted in fifths

F(n) == [k |-> "fin", v |-> n]
INF == [k |-> "inf", v |-> 0]
NINF == [k |-> "ninf", v |-> 0]
NAN == [k |-> "nan", v |-> 0]

IsFin(a) == a.k = "fin"
Sgn(a) == IF a.k = "inf" THEN 1 ELSE IF a.k = "ninf" THEN -1
          ELSE IF a.v > 0 THEN 1 ELSE IF a.v < 0 THEN -1 ELSE 0

FNeg(a) == IF a.k = "fin" THEN F(-a.v) ELSE IF a.k = "inf" THEN NINF
           ELSE IF a.k = "ninf" THEN INF ELSE NAN

(* a + b, both in the same unit *)
FAdd(a, b) ==
    IF a.k = "nan" \/ b.k = "nan" THEN NAN
    ELSE IF IsFin(a) /\ IsFin(b) THEN F(a.v + b.v)
    ELSE IF IsFin(a) THEN b
    ELSE IF IsFin(b) THEN a
    ELSE IF a.k = b.k THEN a ELSE NAN

FSub(a, b) == FAdd(a, FNeg(b))

(* integer quotient rounded toward zero, the divisor nonzero *)
TruncDiv(x, y) ==
    LET ax == IF x < 0 THEN -x ELSE x
        ay == IF y < 0 THEN -y ELSE y
        q == ax \div ay
    IN IF (x < 0) # (y < 0) THEN -q ELSE q

(* a / b for a, b in the same unit; the quotient in units of 1/scale *)
FDiv(a, b, scale) ==
    IF a.k = "nan" \/ b.k = "nan" THEN NAN
    ELSE IF IsFin(a) /\ IsFin(b) THEN
        IF b.v # 0 THEN F(TruncDiv(a.v * scale, b.v))
        ELSE IF a.v > 0 THEN INF ELSE IF a.v < 0 THEN NINF ELSE NAN
    ELSE IF IsFin(a) THEN F(0)
    ELSE IF IsFin(b) THEN (IF Sgn(a) * (IF b.v < 0 THEN -1 ELSE 1) > 0 THEN INF ELSE NINF)
    ELSE NAN

(* n * a for an integer n *)
FScale(n, a) ==
    IF a.k = "nan" THEN NAN
    ELSE IF IsFin(a) THEN F(n * a.v)
    ELSE IF n = 0 THEN NAN
    ELSE IF Sgn(a) * n > 0 THEN INF ELSE NINF

(* a >= b; false when either is a NaN *)
FGe(a, b) ==
    IF a.k = "nan" \/ b.k = "nan" THEN FALSE
    ELSE IF IsFin(a) /\ IsFin(b) THEN a.v >= b.v
    ELSE IF a.k = "inf" THEN TRUE
    ELSE IF b.k = "ninf" THEN TRUE
    ELSE FALSE

----------------------------------------------------------------------------
(* The configuration: the #define constants *)

SAMPLE_GRID_COL_COUNT == cfg.cols
SAMPLE_GRID_ROW_COUNT == cfg.rows
CELL_SIZE_M == cfg.cell_size
GLOB_POS_DELTA_M == cfg.step
ISOLINES_MESH_MAX_SIZE == cfg.capacity
thresholds == cfg.thresholds
THRESHOLD_COUNT == Len(cfg.thresholds)
GLOB_COUNT == cfg.glob_count

(* dimensions of the grid in meters: the width is taken from the ROW count *)
(* and the height from the COL count, as the source has them *)
sample_grid_width_m == (SAMPLE_GRID_ROW_COUNT - 1) * CELL_SIZE_M
sample_grid_height_m == (SAMPLE_GRID_COL_COUNT - 1) * CELL_SIZE_M

(* variant of Cols: the loops over the columns run one column too far *)
Cols_OneMore == 0 .. SAMPLE_GRID_COL_COUNT

Cols == 0 .. (SAMPLE_GRID_COL_COUNT - 1)
Rows == 0 .. (SAMPLE_GRID_ROW_COUNT - 1)

----------------------------------------------------------------------------
(* Cells *)

CELL_WEIGHT_BL == 0
CELL_WEIGHT_BR == 1
CELL_WEIGHT_TR == 2
CELL_WEIGHT_TL == 3

CELL_POINT_L == 0
CELL_POINT_B == 1
CELL_POINT_R == 2
CELL_POINT_T == 3
CELL_POINT_NULL == -1

(* variant of cell_lookup: the rows of the two saddle cases exchanged *)
cell_lookup_SaddlesSwapped == <<
    <<-1, -1, -1, -1>>, << 0,  1, -1, -1>>, << 1,  2, -1, -1>>, << 0,  2, -1, -1>>,
    << 2,  3, -1, -1>>, << 0,  1,  2,  3>>, << 1,  3, -1, -1>>, << 0,  3, -1, -1>>,
    << 0,  3, -1, -1>>, << 1,  3, -1, -1>>, << 0,  3,  1,  2>>, << 2,  3, -1, -1>>,
    << 0,  2, -1, -1>>, << 1,  2, -1, -1>>, << 0,  1, -1, -1>>, <<-1, -1, -1, -1>> >>

(* variant of cell_lookup: case 14 given a third index *)
cell_lookup_OddRow == <<
    <<-1, -1, -1, -1>>, << 0,  1, -1, -1>>, << 1,  2, -1, -1>>, << 0,  2, -1, -1>>,
    << 2,  3, -1, -1>>, << 0,  3,  1,  2>>, << 1,  3, -1, -1>>, << 0,  3, -1, -1>>,
    << 0,  3, -1, -1>>, << 1,  3, -1, -1>>, << 0,  1,  2,  3>>, << 2,  3, -1, -1>>,
    << 0,  2, -1, -1>>, << 1,  2, -1, -1>>, << 0,  1,  2, -1>>, <<-1, -1, -1, -1>> >>

(* variant of cell_lookup: the two entries of row 1 not in the first two  *)
(* slots *)
cell_lookup_GapRow == <<
    <<-1, -1, -1, -1>>, << 0, -1,  1, -1>>, << 1,  2, -1, -1>>, << 0,  2, -1, -1>>,
    << 2,  3, -1, -1>>, << 0,  3,  1,  2>>, << 1,  3, -1, -1>>, << 0,  3, -1, -1>>,
    << 0,  3, -1, -1>>, << 1,  3, -1, -1>>, << 0,  1,  2,  3>>, << 2,  3, -1, -1>>,
    << 0,  2, -1, -1>>, << 1,  2, -1, -1>>, << 0,  1, -1, -1>>, <<-1, -1, -1, -1>> >>

(* marching squares lookup table, cell_lookup[mask][slot]; a C array, so  *)
(* mask m is element m + 1 and slot i is element i + 1 of the sequences    *)
(* variant of cell_lookup: row 6 has the right point for the top point *)
cell_lookup_WrongEdge == <<
    <<CELL_POINT_NULL, CELL_POINT_NULL, CELL_POINT_NULL, CELL_POINT_NULL>>,
    <<CELL_POINT_L   , CELL_POINT_B   , CELL_POINT_NULL, CELL_POINT_NULL>>,
    <<CELL_POINT_B   , CELL_POINT_R   , CELL_POINT_NULL, CELL_POINT_NULL>>,
    <<CELL_POINT_L   , CELL_POINT_R   , CELL_POINT_NULL, CELL_POINT_NULL>>,
    <<CELL_POINT_R   , CELL_POINT_T   , CELL_POINT_NULL, CELL_POINT_NULL>>,
    <<CELL_POINT_L   , CELL_POINT_T   , CELL_POINT_B   , CELL_POINT_R   >>,
    <<CELL_POINT_B   , CELL_POINT_R   , CELL_POINT_NULL, CELL_POINT_NULL>>,
    <<CELL_POINT_L   , CELL_POINT_T   , CELL_POINT_NULL, CELL_POINT_NULL>>,
    <<CELL_POINT_L   , CELL_POINT_T   , CELL_POINT_NULL, CELL_POINT_NULL>>,
    <<CELL_POINT_B   , CELL_POINT_T   , CELL_POINT_NULL, CELL_POINT_NULL>>,
    <<CELL_POINT_L   , CELL_POINT_B   , CELL_POINT_R   , CELL_POINT_T   >>,
    <<CELL_POINT_R   , CELL_POINT_T   , CELL_POINT_NULL, CELL_POINT_NULL>>,
    <<CELL_POINT_L   , CELL_POINT_R   , CELL_POINT_NULL, CELL_POINT_NULL>>,
    <<CELL_POINT_B   , CELL_POINT_R   , CELL_POINT_NULL, CELL_POINT_NULL>>,
    <<CELL_POINT_L   , CELL_POINT_B   , CELL_POINT_NULL, CELL_POINT_NULL>>,
    <<CELL_POINT_NULL, CELL_POINT_NULL, CELL_POINT_NULL, CELL_POINT_NULL>> >>

cell_lookup == <<
    <<CELL_POINT_NULL, CELL_POINT_NULL, CELL_POINT_NULL, CELL_POINT_NULL>>,
    <<CELL_POINT_L   , CELL_POINT_B   , CELL_POINT_NULL, CELL_POINT_NULL>>,
    <<CELL_POINT_B   , CELL_POINT_R   , CELL_POINT_NULL, CELL_POINT_NULL>>,
    <<CELL_POINT_L   , CELL_POINT_R   , CELL_POINT_NULL, CELL_POINT_NULL>>,
    <<CELL_POINT_R   , CELL_POINT_T   , CELL_POINT_NULL, CELL_POINT_NULL>>,
    <<CELL_POINT_L   , CELL_POINT_T   , CELL_POINT_B   , CELL_POINT_R   >>,
    <<CELL_POINT_B   , CELL_POINT_T   , CELL_POINT_NULL, CELL_POINT_NULL>>,
    <<CELL_POINT_L   , CELL_POINT_T   , CELL_POINT_NULL, CELL_POINT_NULL>>,
    <<CELL_POINT_L   , CELL_POINT_T   , CELL_POINT_NULL, CELL_POINT_NULL>>,
    <<CELL_POINT_B   , CELL_POINT_T   , CELL_POINT_NULL, CELL_POINT_NULL>>,
    <<CELL_POINT_L   , CELL_POINT_B   , CELL_POINT_R   , CELL_POINT_T   >>,
    <<CELL_POINT_R   , CELL_POINT_T   , CELL_POINT_NULL, CELL_POINT_NULL>>,
    <<CELL_POINT_L   , CELL_POINT_R   , CELL_POINT_NULL, CELL_POINT_NULL>>,
    <<CELL_POINT_B   , CELL_POINT_R   , CELL_POINT_NULL, CELL_POINT_NULL>>,
    <<CELL_POINT_L   , CELL_POINT_B   , CELL_POINT_NULL, CELL_POINT_NULL>>,
    <<CELL_POINT_NULL, CELL_POINT_NULL, CELL_POINT_NULL, CELL_POINT_NULL>> >>

(* the points of a cell before interpolation: the midpoints of its edges *)
default_points ==
    LET c == CELL_SIZE_M * FracScale
        h == TruncDiv(c, 2)
    IN << [x |-> F(0), y |-> F(h)],
          [x |-> F(h), y |-> F(0)],
          [x |-> F(c), y |-> F(h)],
          [x |-> F(h), y |-> F(c)] >>

(* SET_CORNER((0b0001 << i), state_mask) *)
Pow2(i) == IF i = 0 THEN 1 ELSE IF i = 1 THEN 2 ELSE IF i = 2 THEN 4 ELSE 8
HasBit(mask, i) == (mask \div Pow2(i)) % 2 = 1
SET_CORNER(i, mask) == IF HasBit(mask, i) THEN mask ELSE mask + Pow2(i)

(* variants of CornerActive: a strict comparison, and the comparison turned round *)
CornerActive_Strict(weight, threshold) == FGe(weight, threshold) /\ weight # threshold
CornerActive_Below(weight, threshold) == FGe(threshold, weight)

(* the test of one corner in compute_cell *)
CornerActive(weight, threshold) == FGe(weight, threshold)

RECURSIVE ComputeMask(_, _, _, _)
ComputeMask(samples, threshold, i, mask) ==
    IF i > CELL_WEIGHT_TL THEN mask
    ELSE ComputeMask(samples, threshold, i + 1,
                     IF CornerActive(samples[i + 1], threshold)
                     THEN SET_CORNER(i, mask) ELSE mask)

(* compute_cell: the cell written to *cell; samples = <<BL, BR, TR, TL>> *)
compute_cell(samples, threshold) ==
    LET state_mask == ComputeMask(samples, threshold, CELL_WEIGHT_BL, 0)
    IN [ samples    |-> samples,
         points     |-> default_points,
         indices    |-> cell_lookup[state_mask + 1],
         state_mask |-> state_mask ]

(* variant of lerp: the distance taken from the major weight *)
lerp_FromMajor(threshold, minor_weight, major_weight) ==
    FScale(CELL_SIZE_M,
           FDiv(FSub(threshold, major_weight), FSub(major_weight, minor_weight), FracScale))

lerp(threshold, minor_weight, major_weight) ==
    FScale(CELL_SIZE_M,
           FDiv(FSub(threshold, minor_weight), FSub(major_weight, minor_weight), FracScale))

(* one pass of the switch in lerp_cell; bottom and left are <<>> for NULL *)
(* and <<cell>> otherwise *)
LerpPoint(threshold, cell, bottom, left, index) ==
    IF index = CELL_POINT_L THEN
        [cell EXCEPT !.points[index + 1].y =
            IF left # <<>> THEN left[1].points[CELL_POINT_R + 1].y
            ELSE lerp(threshold, cell.samples[CELL_WEIGHT_BL + 1],
                                 cell.samples[CELL_WEIGHT_TL + 1])]
    ELSE IF index = CELL_POINT_B THEN
        [cell EXCEPT !.points[index + 1].x =
            IF bottom # <<>> THEN bottom[1].points[CELL_POINT_T + 1].x
            ELSE lerp(threshold, cell.samples[CELL_WEIGHT_BL + 1],
                                 cell.samples[CELL_WEIGHT_BR + 1])]
    ELSE IF index = CELL_POINT_R THEN
        [cell EXCEPT !.points[index + 1].y =
            lerp(threshold, cell.samples[CELL_WEIGHT_BR + 1],
                            cell.samples[CELL_WEIGHT_TR + 1])]
    ELSE IF index = CELL_POINT_T THEN
        [cell EXCEPT !.points[index + 1].x =
            lerp(threshold, cell.samples[CELL_WEIGHT_TL + 1],
                            cell.samples[CELL_WEIGHT_TR + 1])]
    ELSE cell

RECURSIVE LerpFrom(_, _, _, _, _)
LerpFrom(threshold, cell, bottom, left, i) ==
    IF i >= 4 THEN cell
    ELSE IF cell.indices[i + 1] = CELL_POINT_NULL THEN cell
    ELSE LerpFrom(threshold,
                  LerpPoint(threshold, cell, bottom, left, cell.indices[i + 1]),
                  bottom, left, i + 1)

lerp_cell(threshold, cell, bottom, left) == LerpFrom(threshold, cell, bottom, left, 0)

----------------------------------------------------------------------------
(* Samples *)

(* get_sample_vertex: the position set by init_sample_gfx_data *)
get_sample_vertex(sample_col, sample_row) ==
    [x |-> sample_col * CELL_SIZE_M, y |-> sample_row * CELL_SIZE_M]

(* variant of calculate_sample_weight: the weight clamped to 1.0 inside    *)
(* the radius of the glob *)
calculate_sample_weight_Clamped(sample_pos_g, glob) ==
    LET x0 == glob.center_g_m.x
        y0 == glob.center_g_m.y
        x1 == sample_pos_g.x
        y1 == sample_pos_g.y
        r2 == glob.radius_m * glob.radius_m
        d2 == (x1 - x0) * (x1 - x0) + (y1 - y0) * (y1 - y0)
    IN IF d2 <= r2 THEN F(WeightScale) ELSE FDiv(F(r2), F(d2), WeightScale)

(* variant of calculate_sample_weight: the radius not squared *)
calculate_sample_weight_Linear(sample_pos_g, glob) ==
    LET x0 == glob.center_g_m.x
        y0 == glob.center_g_m.y
        x1 == sample_pos_g.x
        y1 == sample_pos_g.y
    IN FDiv(F(glob.radius_m),
            F((x1 - x0) * (x1 - x0) + (y1 - y0) * (y1 - y0)), WeightScale)

(* weight function to calculate the weight contribution from a single glob *)
calculate_sample_weight(sample_pos_g, glob) ==
    LET x0 == glob.center_g_m.x
        y0 == glob.center_g_m.y
        x1 == sample_pos_g.x
        y1 == sample_pos_g.y
        r2 == glob.radius_m * glob.radius_m
    IN FDiv(F(r2), F((x1 - x0) * (x1 - x0) + (y1 - y0) * (y1 - y0)), WeightScale)

RECURSIVE SumWeightsFrom(_, _, _, _)
SumWeightsFrom(globs, sample_pos_g_m, i, weight) ==
    IF i > Len(globs) THEN weight
    ELSE SumWeightsFrom(globs, sample_pos_g_m, i + 1,
                        FAdd(weight, calculate_sample_weight(sample_pos_g_m, globs[i])))

(* sums the weight contributions from all globs *)
calculate_sample_weights_sum(globs, sample_pos_g_m) ==
    SumWeightsFrom(globs, sample_pos_g_m, 1, F(0))

(* tick_grid: the weights of every sample, from the globs given *)
tick_grid(globs) ==
    [col \in Cols |-> [row \in Rows |->
        calculate_sample_weights_sum(globs, get_sample_vertex(col, row))]]

----------------------------------------------------------------------------
(* Globbers *)

(* variant of handle_glob_collisions: a glob at its radius from a plane or *)
(* nearer is turned round whichever way it moves                           *)
handle_glob_collisions_Near(glob) ==
    LET dirx == IF glob.center_g_m.x <= glob.radius_m
                THEN -glob.dir.x
                ELSE IF (sample_grid_width_m - glob.center_g_m.x) <= glob.radius_m
                THEN -glob.dir.x
                ELSE glob.dir.x
        diry == IF glob.center_g_m.y <= glob.radius_m
                THEN -glob.dir.y
                ELSE IF (sample_grid_height_m - glob.center_g_m.y) <= glob.radius_m
                THEN -glob.dir.y
                ELSE glob.dir.y
    IN [glob EXCEPT !.dir = [x |-> dirx, y |-> diry]]

(* variant of handle_glob_collisions: a glob at a plane loses the          *)
(* component of its direction towards the plane                            *)
handle_glob_collisions_Stop(glob) ==
    LET dirx == IF (glob.center_g_m.x < glob.radius_m) /\ (glob.dir.x < 0)
                THEN 0
                ELSE IF ((sample_grid_width_m - glob.center_g_m.x) < glob.radius_m)
                        /\ (glob.dir.x > 0)
                THEN 0
                ELSE glob.dir.x
        diry == IF (glob.center_g_m.y < glob.radius_m) /\ (glob.dir.y < 0)
                THEN 0
                ELSE IF ((sample_grid_height_m - glob.center_g_m.y) < glob.radius_m)
                        /\ (glob.dir.y > 0)
                THEN 0
                ELSE glob.dir.y
    IN [glob EXCEPT !.dir = [x |-> dirx, y |-> diry]]

(* variant of handle_glob_collisions: only the planes x = 0 and y = 0      *)
(* turn a glob round                                                       *)
handle_glob_collisions_LowOnly(glob) ==
    LET dirx == IF (glob.center_g_m.x < glob.radius_m) /\ (glob.dir.x < 0)
                THEN -glob.dir.x ELSE glob.dir.x
        diry == IF (glob.center_g_m.y < glob.radius_m) /\ (glob.dir.y < 0)
                THEN -glob.dir.y ELSE glob.dir.y
    IN [glob EXCEPT !.dir = [x |-> dirx, y |-> diry]]

(* variant of handle_glob_collisions: the tests of the direction inverted, *)
(* a glob is turned round when it moves away from the plane it is near     *)
handle_glob_collisions_Inverted(glob) ==
    LET dirx == IF (glob.center_g_m.x < glob.radius_m) /\ (glob.dir.x > 0)
                THEN -glob.dir.x
                ELSE IF ((sample_grid_width_m - glob.center_g_m.x) < glob.radius_m)
                        /\ (glob.dir.x < 0)
                THEN -glob.dir.x
                ELSE glob.dir.x
        diry == IF (glob.center_g_m.y < glob.radius_m) /\ (glob.dir.y > 0)
                THEN -glob.dir.y
                ELSE IF ((sample_grid_height_m - glob.center_g_m.y) < glob.radius_m)
                        /\ (glob.dir.y < 0)
                THEN -glob.dir.y
                ELSE glob.dir.y
    IN [glob EXCEPT !.dir = [x |-> dirx, y |-> diry]]

handle_glob_collisions(glob) ==
    LET dirx == IF (glob.center_g_m.x < glob.radius_m) /\ (glob.dir.x < 0)
                THEN -glob.dir.x
                ELSE IF ((sample_grid_width_m - glob.center_g_m.x) < glob.radius_m)
                        /\ (glob.dir.x > 0)
                THEN -glob.dir.x
                ELSE glob.dir.x
        diry == IF (glob.center_g_m.y < glob.radius_m) /\ (glob.dir.y < 0)
                THEN -glob.dir.y
                ELSE IF ((sample_grid_height_m - glob.center_g_m.y) < glob.radius_m)
                        /\ (glob.dir.y > 0)
                THEN -glob.dir.y
                ELSE glob.dir.y
    IN [glob EXCEPT !.dir = [x |-> dirx, y |-> diry]]

(* the body of the loop of tick_globs: advance, then reflect *)
AdvanceGlob(glob) ==
    [glob EXCEPT !.center_g_m =
        [x |-> glob.center_g_m.x + TruncDiv(glob.dir.x * GLOB_POS_DELTA_M, DirScale),
         y |-> glob.center_g_m.y + TruncDiv(glob.dir.y * GLOB_POS_DELTA_M, DirScale)]]

tick_globs(globs) ==
    [i \in 1 .. Len(globs) |-> handle_glob_collisions(AdvanceGlob(globs[i]))]

----------------------------------------------------------------------------
(* The isolines mesh.  A sweep threads the record st through the cells:    *)
(*   grid          grid.samples                                            *)
(*   mesh, count   isolines_mesh and isolines_mesh_component_count         *)
(*   cache         cell_column_cache                                       *)
(*   status        "ready" while the sweep runs                            *)
(*   log, oob      the history variables                                   *)

(* variant of WriteComponent: the count advanced by two at each write *)
WriteComponent_CountTwice(st, v) ==
    LET index == st.count
    IN IF index < ISOLINES_MESH_MAX_SIZE
       THEN [st EXCEPT !.mesh = IF index < Len(st.mesh)
                                THEN [st.mesh EXCEPT ![index + 1] = v]
                                ELSE Append(st.mesh, v),
                       !.count = index + 2]
       ELSE [st EXCEPT !.oob = st.oob \cup {index},
                       !.count = index + 2]

(* isolines_mesh[isolines_mesh_component_count++] = v.  A write at an      *)
(* index >= ISOLINES_MESH_MAX_SIZE is outside the array: it is recorded,   *)
(* and the tick then ends in any of the outcomes of Tick.                  *)
WriteComponent(st, v) ==
    LET index == st.count
    IN IF index < ISOLINES_MESH_MAX_SIZE
       THEN [st EXCEPT !.mesh = IF index < Len(st.mesh)
                                THEN [st.mesh EXCEPT ![index + 1] = v]
                                ELSE Append(st.mesh, v),
                       !.count = index + 1]
       ELSE [st EXCEPT !.oob = st.oob \cup {index},
                       !.count = index + 1]

(* the test after a point is added; true when the process exits *)
MeshTooLarge(count) == count > (ISOLINES_MESH_MAX_SIZE - 2)

(* the loop over the indices of the current cell, from slot i *)
RECURSIVE EmitFrom(_, _, _, _, _)
EmitFrom(st, cell, col, row, i) ==
    IF i >= 4 THEN st
    ELSE IF cell.indices[i + 1] = CELL_POINT_NULL
    THEN (IF i % 2 = 0 THEN st ELSE [st EXCEPT !.status = "aborted"])
    ELSE LET local == cell.points[cell.indices[i + 1] + 1]
             px == FAdd(local.x, F(col * CELL_SIZE_M * FracScale))
             py == FAdd(local.y, F(row * CELL_SIZE_M * FracScale))
             st2 == WriteComponent(WriteComponent(st, px), py)
         IN IF MeshTooLarge(st2.count)
            THEN [st2 EXCEPT !.status = "exited"]
            ELSE EmitFrom(st2, cell, col, row, i + 1)

(* variant of LeftCell: the previous-column cache read in column 0 too,    *)
(* where it holds what an earlier pass left                                *)
LeftCell_Leftover(cache, cur, has_left, row) == <<cache[(1 - cur) + 1][row]>>

(* variant of LeftCell: the left cell read from the column being written *)
LeftCell_SameColumn(cache, cur, has_left, row) ==
    IF has_left THEN <<cache[cur + 1][row]>> ELSE <<>>

(* variant of BottomCell: the entry of the row itself, not of the row below *)
BottomCell_SameRow(cache, cur, row) == IF row > 0 THEN <<cache[cur + 1][row]>> ELSE <<>>

(* the cell below and the cell to the left, <<>> for NULL *)
BottomCell(cache, cur, row) == IF row > 0 THEN <<cache[cur + 1][row - 1]>> ELSE <<>>
LeftCell(cache, cur, has_left, row) == IF has_left THEN <<cache[(1 - cur) + 1][row]>> ELSE <<>>

(* the body of the inner loop of generate_isolines_mesh for cell (col,row); *)
(* cur is cell_column_cache_id, has_left is left_column_cache != NULL       *)
ProcessCell(st, threshold, tid, col, row, cur, has_left) ==
    LET samples == << st.grid[col    ][row    ],
                      st.grid[col + 1][row    ],
                      st.grid[col + 1][row + 1],
                      st.grid[col    ][row + 1] >>
        computed == compute_cell(samples, threshold)
        bottom_cell == BottomCell(st.cache, cur, row)
        left_cell == LeftCell(st.cache, cur, has_left, row)
        current_cell == lerp_cell(threshold, computed, bottom_cell, left_cell)
        st1 == [st EXCEPT !.cache[cur + 1][row] = current_cell,
                          !.log = Append(st.log,
                                         [tid |-> tid, threshold |-> threshold,
                                          col |-> col, row |-> row,
                                          cell |-> current_cell,
                                          left |-> left_cell # <<>>,
                                          bottom |-> bottom_cell # <<>>,
                                          left_cell |-> left_cell,
                                          bottom_cell |-> bottom_cell,
                                          cache_id |-> cur])]
    IN IF computed.state_mask > 15
       THEN [st EXCEPT !.status = "aborted"]
       ELSE EmitFrom(st1, current_cell, col, row, 0)

(* the two loops, flattened: cell n is (n \div cellrows, n % cellrows); the *)
(* caches swap after the last row of a column *)
RECURSIVE SweepFrom(_, _, _, _)
SweepFrom(st, threshold, tid, n) ==
    LET cellrows == SAMPLE_GRID_ROW_COUNT - 1
        cellcols == SAMPLE_GRID_COL_COUNT - 1
        col == n \div cellrows
        row == n % cellrows
    IN IF st.status # "ready" THEN st
       ELSE IF n >= cellcols * cellrows
       THEN (IF st.count % 2 = 0 THEN st ELSE [st EXCEPT !.status = "aborted"])
       ELSE SweepFrom(ProcessCell(st, threshold, tid, col, row, col % 2, col > 0),
                      threshold, tid, n + 1)

(* variant of generate_isolines_mesh: the sweep starts at the second cell *)
generate_isolines_mesh_FromSecond(st, threshold, tid) == SweepFrom(st, threshold, tid, 1)

generate_isolines_mesh(st, threshold, tid) == SweepFrom(st, threshold, tid, 0)

(* the loop over the thresholds in tick_metaballs *)
RECURSIVE ThresholdsFrom(_, _)
ThresholdsFrom(st, i) ==
    IF i > THRESHOLD_COUNT \/ st.status # "ready" THEN st
    ELSE ThresholdsFrom(generate_isolines_mesh(st, thresholds[i], i - 1), i + 1)

(* variant of RegenerateMesh: the mesh is not reset *)
RegenerateMesh_NoReset(g) ==
    ThresholdsFrom([grid   |-> g,
                    mesh   |-> isolines_mesh,
                    count  |-> isolines_mesh_component_count,
                    cache  |-> cell_column_cache,
                    status |-> "ready",
                    log    |-> <<>>,
                    oob    |-> {}], 1)

(* reset_isolines_mesh, then the loop, over the samples g *)
RegenerateMesh(g) ==
    ThresholdsFrom([grid   |-> g,
                    mesh   |-> isolines_mesh,
                    count  |-> 0,
                    cache  |-> cell_column_cache,
                    status |-> "ready",
                    log    |-> <<>>,
                    oob    |-> {}], 1)

----------------------------------------------------------------------------
(* Configurations *)

GLOB_MIN_RADIUS_M == 10      \* 1.f m
GLOB_MAX_RADIUS_M == 30      \* 3.f m
ProgramMeshSize == 13000     \* the ISOLINES_MESH_MAX_SIZE of the source
pos_resolution == 400
radius_resolution == 100

(* the thresholds of the source, and the single threshold 0.5 *)
ProgramThresholds == <<F(600), F(800), F(1000), F(1300), F(2000)>>
HalfThreshold == <<F(500)>>

(* unit vectors with components in fifths, and the values of rand() % n    *)
(* that are explored                                                       *)
AllDirs == { [x |-> 5, y |-> 0], [x |-> -5, y |-> 0], [x |-> 0, y |-> 5], [x |-> 0, y |-> -5],
             [x |-> 3, y |-> 4], [x |-> -3, y |-> -4], [x |-> -4, y |-> 3], [x |-> 4, y |-> -3] }
FewDirs == { [x |-> 5, y |-> 0], [x |-> -3, y |-> -4] }
PosRand == {0, 200, 390}
RadiusRand == {0, 50}

Min(a, b) == IF a < b THEN a ELSE b

(* a configuration whose globs fit the grid: the largest radius is at most *)
(* half the smaller side *)
Config(cols, rows, cell_size, capacity, ths, glob_count, dirs, radius_rand) ==
    [ cols |-> cols, rows |-> rows, cell_size |-> cell_size, step |-> 5,
      capacity |-> capacity, thresholds |-> ths, glob_count |-> glob_count,
      min_radius |-> GLOB_MIN_RADIUS_M,
      max_radius |-> Min(GLOB_MAX_RADIUS_M,
                         ((Min(cols, rows) - 1) * cell_size) \div 2),
      dirs |-> dirs, radius_rand |-> radius_rand ]

Dims == 2 .. MaxDim

Configs ==
    { Config(c, r, 30, ProgramMeshSize, ProgramThresholds, 1, AllDirs, RadiusRand) :
        c \in Dims, r \in Dims }
    \cup { Config(2, 2, 30, cap, ProgramThresholds, 1, AllDirs, RadiusRand) :
             cap \in 0 .. MaxCapacity }
    \cup { Config(3, 3, 10, ProgramMeshSize, HalfThreshold, 1, AllDirs, {0}) }
    \cup { Config(3, 3, 30, ProgramMeshSize, ProgramThresholds, 2, FewDirs, {0}) }

(* every sample of an arbitrary field has the base weight, but for at most *)
(* MaxPerturbed samples; the field grids have at most 3 * MaxDim samples   *)
FieldWeights == {F(500), F(1000), F(3000)}

FieldShapes == { d \in Dims \X Dims : d[1] * d[2] <= 3 * MaxDim }

FieldConfigs ==
    { Config(d[1], d[2], 30, ProgramMeshSize, ProgramThresholds, 0, {}, {}) :
        d \in FieldShapes }

(* the sets of samples that may differ from the base weight *)
PerturbedSets(c) ==
    { T \in SUBSET ((0 .. (c.cols - 1)) \X (0 .. (c.rows - 1))) :
        Cardinality(T) <= MaxPerturbed }

(* the field of weight base but for the samples of S, which have those of f *)
FieldGrid(c, base, S, f) ==
    [col \in 0 .. (c.cols - 1) |-> [row \in 0 .. (c.rows - 1) |->
        IF <<col, row>> \in S THEN f[<<col, row>>] ELSE base]]

----------------------------------------------------------------------------
(* Initialisation *)

(* rand_direction: one of the unit vectors *)
rand_direction == cfg.dirs

(* rand_position_and_radius, for the values kr, kx, ky of rand() % n *)
rand_position_and_radius(kr, kx, ky) ==
    LET radius_m == TruncDiv(kr * (cfg.max_radius - cfg.min_radius), radius_resolution)
                    + cfg.min_radius
    IN [ radius_m |-> radius_m,
         pos_g_m |->
           [x |-> TruncDiv(kx * (sample_grid_width_m - 2 * radius_m), pos_resolution) + radius_m,
            y |-> TruncDiv(ky * (sample_grid_height_m - 2 * radius_m), pos_resolution) + radius_m] ]

(* generate_globs: the globbers the random draws can give *)
GlobChoices ==
    { [ center_g_m |-> rand_position_and_radius(kr, kx, ky).pos_g_m,
        radius_m   |-> rand_position_and_radius(kr, kx, ky).radius_m,
        dir        |-> d ] :
      d \in rand_direction, kr \in cfg.radius_rand, kx \in PosRand, ky \in PosRand }

generate_globs == [1 .. GLOB_COUNT -> GlobChoices]

(* static storage is zeroed *)
ZeroCell ==
    [ samples    |-> <<F(0), F(0), F(0), F(0)>>,
      points     |-> [i \in 1 .. 4 |-> [x |-> F(0), y |-> F(0)]],
      indices    |-> <<0, 0, 0, 0>>,
      state_mask |-> 0 ]

(* init_grid: zero all sample weights *)
init_grid == [col \in Cols |-> [row \in Rows |-> F(0)]]

InitStatics ==
    /\ isolines_mesh = <<>>
    /\ isolines_mesh_component_count = 0
    /\ cell_column_cache = <<[row \in Rows |-> ZeroCell], [row \in Rows |-> ZeroCell]>>
    /\ status = "ready"
    /\ ticks = 0
    /\ cell_log = <<>>
    /\ oob_writes = {}
    /\ prev_globbers = globbers

(* the state after init_metaballs *)
Init ==
    /\ cfg \in Configs
    /\ globbers \in generate_globs
    /\ grid = init_grid
    /\ InitStatics

(* an arbitrary field in the grid, for the extraction taken alone *)
InitField ==
    /\ cfg \in FieldConfigs
    /\ globbers = <<>>
    /\ \E base \in FieldWeights : \E S \in PerturbedSets(cfg) : \E f \in [S -> FieldWeights] :
          grid = FieldGrid(cfg, base, S, f)
    /\ InitStatics

----------------------------------------------------------------------------
(* Operations *)

(* what a tick leaves behind, given the sweep's result res.  A write       *)
(* outside isolines_mesh is undefined behaviour: the process either goes   *)
(* on as the code reads, or its memory is corrupted and it is lost.        *)
Outcome(res) ==
    /\ isolines_mesh' = res.mesh
    /\ isolines_mesh_component_count' = res.count
    /\ cell_column_cache' = res.cache
    /\ cell_log' = res.log
    /\ oob_writes' = res.oob
    /\ status' \in (IF res.oob = {} THEN {res.status} ELSE {res.status, "corrupt"})

(* variant of Tick: the grid recomputed before the globs are advanced *)
Tick_GridFirst ==
    /\ status = "ready"
    /\ ticks < MaxTicks
    /\ grid' = tick_grid(globbers)
    /\ globbers' = tick_globs(globbers)
    /\ \E res \in {RegenerateMesh(grid')} : Outcome(res)
    /\ ticks' = ticks + 1
    /\ prev_globbers' = globbers
    /\ UNCHANGED cfg

(* tick_metaballs *)
Tick ==
    /\ status = "ready"
    /\ ticks < MaxTicks
    /\ globbers' = tick_globs(globbers)
    /\ grid' = tick_grid(globbers')
    /\ \E res \in {RegenerateMesh(grid')} : Outcome(res)
    /\ ticks' = ticks + 1
    /\ prev_globbers' = globbers
    /\ UNCHANGED cfg

(* the mesh part of tick_metaballs alone, over the field in the grid *)
FieldExtract ==
    /\ status = "ready"
    /\ ticks = 0
    /\ \E res \in {RegenerateMesh(grid)} : Outcome(res)
    /\ ticks' = ticks + 1
    /\ UNCHANGED <<cfg, globbers, grid, prev_globbers>>

Next == Tick

Spec == Init /\ [][Next]_vars

NextField == FieldExtract

SpecField == InitField /\ [][NextField]_vars

----------------------------------------------------------------------------
(* Reference extraction: every cell taken alone, every point interpolated  *)
(* from the cell's own corners                                             *)

CellSamples(g, col, row) ==
    << g[col][row], g[col + 1][row], g[col + 1][row + 1], g[col][row + 1] >>

FreshCell(g, threshold, col, row) ==
    lerp_cell(threshold, compute_cell(CellSamples(g, col, row), threshold), <<>>, <<>>)

RECURSIVE CellComponents(_, _, _, _)
CellComponents(cell, col, row, i) ==
    IF i >= 4 THEN <<>>
    ELSE IF cell.indices[i + 1] = CELL_POINT_NULL THEN <<>>
    ELSE LET local == cell.points[cell.indices[i + 1] + 1]
         IN << FAdd(local.x, F(col * CELL_SIZE_M * FracScale)),
               FAdd(local.y, F(row * CELL_SIZE_M * FracScale)) >>
            \o CellComponents(cell, col, row, i + 1)

RECURSIVE FreshMeshFrom(_, _, _)
FreshMeshFrom(g, threshold, n) ==
    LET cellrows == SAMPLE_GRID_ROW_COUNT - 1
        cellcols == SAMPLE_GRID_COL_COUNT - 1
        col == n \div cellrows
        row == n % cellrows
    IN IF n >= cellcols * cellrows THEN <<>>
       ELSE CellComponents(FreshCell(g, threshold, col, row), col, row, 0)
            \o FreshMeshFrom(g, threshold, n + 1)

(* the components of the segments of one threshold *)
FreshMesh(g, threshold) == FreshMeshFrom(g, threshold, 0)

RECURSIVE AllFreshFrom(_, _)
AllFreshFrom(g, i) ==
    IF i > THRESHOLD_COUNT THEN <<>>
    ELSE FreshMesh(g, thresholds[i]) \o AllFreshFrom(g, i + 1)

(* the components of the segments of every threshold, in threshold order *)
AllFreshMesh(g) == AllFreshFrom(g, 1)

(* the mesh the program holds: the first component_count components *)
Mesh == SubSeq(isolines_mesh, 1, Min(isolines_mesh_component_count, Len(isolines_mesh)))

Entries == { cell_log[i] : i \in 1 .. Len(cell_log) }
UsedSlots(indices) == { i \in 1 .. 4 : indices[i] # CELL_POINT_NULL }
UsesPoint(cell, point) == \E i \in 1 .. 4 : cell.indices[i] = point
Extracted == ticks > 0

----------------------------------------------------------------------------
(* Claims *)

(* C1: a left (bottom) point copied from the left (bottom) neighbour's     *)
(* right (top) point equals the lerp of the cell's own BL and TL (BL and   *)
(* BR) weights at the threshold of the sweep.                              *)
C1_ReuseEqualsFresh ==
    \A e \in Entries :
        /\ (e.left /\ UsesPoint(e.cell, CELL_POINT_L)) =>
              e.cell.points[CELL_POINT_L + 1].y =
                 lerp(e.threshold, e.cell.samples[CELL_WEIGHT_BL + 1],
                                   e.cell.samples[CELL_WEIGHT_TL + 1])
        /\ (e.bottom /\ UsesPoint(e.cell, CELL_POINT_B)) =>
              e.cell.points[CELL_POINT_B + 1].x =
                 lerp(e.threshold, e.cell.samples[CELL_WEIGHT_BL + 1],
                                   e.cell.samples[CELL_WEIGHT_BR + 1])

(* a sweep in which one cell copied its left point and one its bottom      *)
(* point, each off the midpoint of the edge                                *)
C1_Witness ==
    /\ \E e \in Entries :
          /\ e.left /\ UsesPoint(e.cell, CELL_POINT_L)
          /\ e.cell.points[CELL_POINT_L + 1].y # default_points[CELL_POINT_L + 1].y
    /\ \E e \in Entries :
          /\ e.bottom /\ UsesPoint(e.cell, CELL_POINT_B)
          /\ e.cell.points[CELL_POINT_B + 1].x # default_points[CELL_POINT_B + 1].x

(* the rows of the table as the specification lists them, L B R T = 0 1 2 3 *)
ListedRows == <<
    <<-1, -1, -1, -1>>, << 0,  1, -1, -1>>, << 1,  2, -1, -1>>, << 0,  2, -1, -1>>,
    << 2,  3, -1, -1>>, << 0,  3,  1,  2>>, << 1,  3, -1, -1>>, << 0,  3, -1, -1>>,
    << 0,  3, -1, -1>>, << 1,  3, -1, -1>>, << 0,  1,  2,  3>>, << 2,  3, -1, -1>>,
    << 0,  2, -1, -1>>, << 1,  2, -1, -1>>, << 0,  1, -1, -1>>, <<-1, -1, -1, -1>> >>

(* C2: the table has exactly the sixteen listed rows, and the indices of   *)
(* every computed cell are the listed row of the cell's mask.              *)
C2_TableRows ==
    /\ \A m \in 0 .. 15 : cell_lookup[m + 1] = ListedRows[m + 1]
    /\ \A e \in Entries : e.cell.indices = ListedRows[e.cell.state_mask + 1]

(* a sweep with a cell of mask 5, all four of its slots in use *)
C2_Witness ==
    \E e \in Entries : e.cell.state_mask = 5 /\ e.cell.indices = <<0, 3, 1, 2>>

(* C3 as stated: the lookup of every cell returns 0 or exactly 2 valid     *)
(* entries.                                                                *)
C3_ZeroOrTwo ==
    \A e \in Entries : Cardinality(UsedSlots(e.cell.indices)) \in {0, 2}

(* C3 amended: every mask has 0, 2 or 4 valid entries, never 1 or 3; it    *)
(* has 4 exactly for the saddle masks 5 and 10, and 0 exactly for 0 and 15 *)
C3_ZeroTwoOrFour ==
    /\ \A m \in 0 .. 15 :
          LET n == Cardinality(UsedSlots(cell_lookup[m + 1]))
          IN /\ n \in {0, 2, 4}
             /\ (n = 4) <=> (m \in {5, 10})
             /\ (n = 0) <=> (m \in {0, 15})
    /\ \A e \in Entries : Cardinality(UsedSlots(e.cell.indices)) \in {0, 2, 4}

(* a sweep with a cell of mask 10, which has four valid entries *)
C3_Witness ==
    \E e \in Entries : e.cell.state_mask = 10 /\ Cardinality(UsedSlots(e.cell.indices)) = 4

(* C8: bit i of a cell's mask is set exactly when the weight of corner i,  *)
(* in the order BL BR TR TL of the grid samples around the cell, is at     *)
(* least the threshold; the mask is in 0..15.                              *)
C8_MaskBits ==
    \A e \in Entries :
        /\ e.cell.samples = CellSamples(grid, e.col, e.row)
        /\ e.cell.state_mask \in 0 .. 15
        /\ \A i \in 0 .. 3 :
              LET w == e.cell.samples[i + 1]
              IN HasBit(e.cell.state_mask, i) <=>
                    (w.k = "inf" \/ (w.k = "fin" /\ e.threshold.k = "fin"
                                     /\ w.v >= e.threshold.v))

(* a cell with a corner whose weight equals the threshold, and is active, *)
(* next to a corner below the threshold                                    *)
C8_Witness ==
    \E e \in Entries : \E i, j \in 0 .. 3 :
        /\ e.cell.samples[i + 1] = e.threshold
        /\ HasBit(e.cell.state_mask, i)
        /\ ~HasBit(e.cell.state_mask, j)

(* C9: of two sweeps of the same grid, the mask of a cell at the higher    *)
(* threshold is a bitwise subset of its mask at the lower threshold.       *)
C9_Containment ==
    \A e1, e2 \in Entries :
        (e1.col = e2.col /\ e1.row = e2.row /\ e1.threshold.v < e2.threshold.v) =>
            \A i \in 0 .. 3 : HasBit(e2.cell.state_mask, i) => HasBit(e1.cell.state_mask, i)

(* a cell whose mask at a higher threshold is a proper, nonempty part of   *)
(* its mask at a lower one                                                 *)
C9_Witness ==
    \E e1, e2 \in Entries :
        /\ e1.col = e2.col /\ e1.row = e2.row /\ e1.threshold.v < e2.threshold.v
        /\ e2.cell.state_mask # 0
        /\ e2.cell.state_mask # e1.cell.state_mask

(* C4 as stated: no mesh component is ever written at an index at or       *)
(* beyond the capacity of the buffer.                                      *)
C4_NoWriteOutOfBounds == oob_writes = {}

(* C5 as stated: the process exits for capacity only in a tick whose       *)
(* segments, all thresholds together, have more components than the        *)
(* buffer holds.                                                           *)
C5_ExitOnlyIfExceeded ==
    (status = "exited") => Len(AllFreshMesh(grid)) > ISOLINES_MESH_MAX_SIZE

Moved(i) == AdvanceGlob(prev_globbers[i])

(* C7: in every tick and on each axis by itself, a glob that is within its *)
(* radius of a boundary plane and moves toward it has that component of    *)
(* its direction negated, and one that is within its radius of a plane and *)
(* moves away from it keeps it.  The planes are x = 0, x =                 *)
(* sample_grid_width_m, y = 0 and y = sample_grid_height_m; the glob is    *)
(* taken where the translation of the tick put it and where it was before. *)
C7_Reflection ==
    Extracted =>
    \A i \in 1 .. Len(globbers) :
        LET b == prev_globbers[i]
            a == globbers[i]
            r == b.radius_m
            NearLowX  == (b.center_g_m.x < r) \/ (Moved(i).center_g_m.x < r)
            NearHighX == ((sample_grid_width_m - b.center_g_m.x) < r)
                         \/ ((sample_grid_width_m - Moved(i).center_g_m.x) < r)
            NearLowY  == (b.center_g_m.y < r) \/ (Moved(i).center_g_m.y < r)
            NearHighY == ((sample_grid_height_m - b.center_g_m.y) < r)
                         \/ ((sample_grid_height_m - Moved(i).center_g_m.y) < r)
        IN /\ (NearLowX  /\ b.dir.x < 0) => a.dir.x = -b.dir.x
           /\ (NearHighX /\ b.dir.x > 0) => a.dir.x = -b.dir.x
           /\ (NearLowX  /\ b.dir.x > 0) => a.dir.x = b.dir.x
           /\ (NearHighX /\ b.dir.x < 0) => a.dir.x = b.dir.x
           /\ (NearLowY  /\ b.dir.y < 0) => a.dir.y = -b.dir.y
           /\ (NearHighY /\ b.dir.y > 0) => a.dir.y = -b.dir.y
           /\ (NearLowY  /\ b.dir.y > 0) => a.dir.y = b.dir.y
           /\ (NearHighY /\ b.dir.y < 0) => a.dir.y = b.dir.y
           /\ a.center_g_m = Moved(i).center_g_m

(* a glob that the translation of the tick took within its radius of a    *)
(* plane of x while it moved toward it, and that was turned round on x     *)
TurnedOnX(i) ==
    LET b == prev_globbers[i]
    IN /\ \/ (Moved(i).center_g_m.x < b.radius_m) /\ (b.dir.x < 0)
          \/ ((sample_grid_width_m - Moved(i).center_g_m.x) < b.radius_m) /\ (b.dir.x > 0)
       /\ globbers[i].dir.x = -b.dir.x

(* a glob that began the tick within its radius of a plane of y, moving    *)
(* away from it, and kept its direction on y                               *)
KeptOnY(i) ==
    LET b == prev_globbers[i]
    IN /\ \/ (b.center_g_m.y < b.radius_m) /\ (b.dir.y > 0)
          \/ ((sample_grid_height_m - b.center_g_m.y) < b.radius_m) /\ (b.dir.y < 0)
       /\ globbers[i].dir.y = b.dir.y

(* a tick in which one glob was turned round on x and one, near a plane of *)
(* y and moving away from it, was not turned on y                          *)
C7_Witness ==
    /\ Extracted
    /\ \E i \in 1 .. Len(globbers) : TurnedOnX(i)
    /\ \E j \in 1 .. Len(globbers) : KeptOnY(j)

(* the end-to-end scenario: 3x3 samples 1.0 apart, threshold 0.5, one glob *)
(* of radius 1.0 at (1,1) when the grid was recomputed                     *)
Scenario ==
    /\ SAMPLE_GRID_COL_COUNT = 3 /\ SAMPLE_GRID_ROW_COUNT = 3
    /\ CELL_SIZE_M = 10
    /\ thresholds = <<F(500)>>
    /\ Len(globbers) = 1
    /\ globbers[1].radius_m = 10
    /\ globbers[1].center_g_m = [x |-> 10, y |-> 10]
    /\ Extracted /\ status = "ready"

(* C10: in the scenario each of the four cells has mask 1111 and the mesh  *)
(* is empty.                                                               *)
C10_ScenarioEmpty ==
    Scenario =>
        /\ Len(cell_log) = 4
        /\ \A e \in Entries : e.cell.state_mask = 15
        /\ { <<e.col, e.row>> : e \in Entries } = (0 .. 1) \X (0 .. 1)
        /\ isolines_mesh_component_count = 0
        /\ Mesh = <<>>

(* the scenario, its corner samples at the threshold *)
C10_Witness ==
    /\ Scenario
    /\ grid[0][0] = F(500) /\ grid[2][2] = F(500)

(* the four samples at the corners of the 3x3 grid of the scenario *)
ScenarioCorners == { <<0, 0>>, <<2, 0>>, <<2, 2>>, <<0, 2>> }

(* C11 as stated: in the scenario the centre sample (1,1) has weight 1.0   *)
(* and each of the four corner samples has weight 0.5.                     *)
C11_CentreIsOne ==
    Scenario =>
        /\ grid[1][1] = F(WeightScale)
        /\ \A p \in ScenarioCorners : grid[p[1]][p[2]] = F(500)

(* C11 amended: in the scenario the centre sample (1,1), at distance 0     *)
(* from the glob, has weight +infinity (radius squared over zero); each of *)
(* the four corner samples has weight 0.5 and each of the four samples at  *)
(* distance 1.0 = radius, the middles of the sides, has weight 1.0.        *)
C11_CentreIsInfinite ==
    Scenario =>
        /\ grid[1][1] = INF
        /\ \A p \in ScenarioCorners : grid[p[1]][p[2]] = F(500)
        /\ \A p \in { <<1, 0>>, <<2, 1>>, <<1, 2>>, <<0, 1>> } :
              grid[p[1]][p[2]] = F(WeightScale)

(* the scenario, the sample under the glob infinite and a sample at the    *)
(* radius of the glob at 1.0                                               *)
C11_Witness ==
    /\ Scenario
    /\ grid[1][1].k = "inf"
    /\ grid[1][0] = F(WeightScale)

(* a build whose mesh buffer has no room for the two components of one     *)
(* point, on a grid with at least one cell                                 *)
CapacityTooSmall ==
    /\ ISOLINES_MESH_MAX_SIZE < 2
    /\ SAMPLE_GRID_COL_COUNT >= 2 /\ SAMPLE_GRID_ROW_COUNT >= 2

(* C12 as stated: with a mesh capacity too small, init_metaballs does not  *)
(* complete setup: the program is never left ready to tick.                *)
C12_InvalidConfigurationReported ==
    CapacityTooSmall => status # "ready"

(* the components the cells of pass tid emitted, in the order of the pass, *)
(* from entry n of the log on                                              *)
RECURSIVE PassComponentsFrom(_, _)
PassComponentsFrom(tid, n) ==
    IF n > Len(cell_log) THEN <<>>
    ELSE (IF cell_log[n].tid = tid
          THEN CellComponents(cell_log[n].cell, cell_log[n].col, cell_log[n].row, 0)
          ELSE <<>>)
         \o PassComponentsFrom(tid, n + 1)

PassComponents(tid) == PassComponentsFrom(tid, 1)

(* C13: after a tick that returned, the segments each pass produced are    *)
(* those of its threshold and the current grid alone, every cell computed  *)
(* by itself from its own four samples: they do not depend on the other    *)
(* thresholds of the set, on their order, or on what an earlier pass or    *)
(* tick left in cell_column_cache.                                         *)
C13_PassDependsOnGridAndThreshold ==
    (status = "ready" /\ Extracted) =>
        \A i \in 1 .. THRESHOLD_COUNT :
            PassComponents(i - 1) = FreshMesh(grid, thresholds[i])

(* a pass after the first whose cell in column 0 uses its left point,      *)
(* while the pass before left in the other cache column, at the same row,  *)
(* a cell with another right point                                         *)
C13_Witness ==
    /\ status = "ready"
    /\ \E e0, e1 \in Entries :
          /\ e1.tid = e0.tid + 1
          /\ e1.col = 0 /\ e0.col = 1 /\ e1.row = e0.row
          /\ UsesPoint(e1.cell, CELL_POINT_L)
          /\ UsesPoint(e0.cell, CELL_POINT_R)
          /\ e0.cell.points[CELL_POINT_R + 1].y # e1.cell.points[CELL_POINT_L + 1].y

(* the points the emit loop writes for a cell when it runs to its end *)
PointsOf(e) == Len(CellComponents(e.cell, e.col, e.row, 0)) \div 2

C15_TickOrder ==
    Extracted =>
        /\ globbers = tick_globs(prev_globbers)
        /\ grid = tick_grid(tick_globs(prev_globbers))
        /\ \A n \in 1 .. Len(cell_log) :
              /\ cell_log[n].tid \in 0 .. (THRESHOLD_COUNT - 1)
              /\ cell_log[n].threshold = thresholds[cell_log[n].tid + 1]
              /\ cell_log[n].cell.samples = CellSamples(grid, cell_log[n].col, cell_log[n].row)
              /\ (n > 1) => cell_log[n - 1].tid \in { cell_log[n].tid - 1, cell_log[n].tid }
        /\ (status = "ready") =>
              Mesh = AllFreshMesh(tick_grid(tick_globs(prev_globbers)))

(* a tick that moved a glob, returned, and left a mesh that the weights of *)
(* the positions before the tick would not give                            *)
C15_Witness ==
    /\ Extracted /\ status = "ready"
    /\ Mesh # <<>>
    /\ \E i \in 1 .. Len(globbers) : globbers[i].center_g_m # prev_globbers[i].center_g_m
    /\ Mesh # AllFreshMesh(tick_grid(prev_globbers))
    /\ \E e1, e2 \in Entries : e1.tid # e2.tid

(* the cells of one pass: columns 0 .. cols-2 of rows 0 .. rows-2 *)
CellCount == (SAMPLE_GRID_COL_COUNT - 1) * (SAMPLE_GRID_ROW_COUNT - 1)

(* C16: the n-th cell a tick processed is, of pass n \div CellCount, the    *)
(* cell number n % CellCount in the order column 0 rows 0 .. rows-2, then  *)
(* column 1, and so on: each pass visits every cell once in that order.    *)
(* A tick that returned made every pass to its end; a tick stops short     *)
(* only where the test of the mesh size made the process exit.             *)
C16_SweepOrder ==
    Extracted =>
        /\ \A n \in 1 .. Len(cell_log) :
              /\ cell_log[n].tid = (n - 1) \div CellCount
              /\ cell_log[n].col = ((n - 1) % CellCount) \div (SAMPLE_GRID_ROW_COUNT - 1)
              /\ cell_log[n].row = ((n - 1) % CellCount) % (SAMPLE_GRID_ROW_COUNT - 1)
        /\ Len(cell_log) <= CellCount * THRESHOLD_COUNT
        /\ (status = "ready") => Len(cell_log) = CellCount * THRESHOLD_COUNT
        /\ (Len(cell_log) < CellCount * THRESHOLD_COUNT) =>
              /\ status \in {"exited", "corrupt"}
              /\ MeshTooLarge(isolines_mesh_component_count)

(* a tick that returned on a grid of 2 columns and 3 rows of samples, and  *)
(* so processed the cells (0,0) and (0,1) in each of five passes           *)
C16_Witness ==
    /\ Extracted /\ status = "ready"
    /\ SAMPLE_GRID_COL_COUNT = 2 /\ SAMPLE_GRID_ROW_COUNT = 3
    /\ Len(cell_log) = 10
    /\ cell_log[10].col = 0 /\ cell_log[10].row = 1

(* a tick that the exit cut short in a pass *)
C16_WitnessExit ==
    /\ status = "exited"
    /\ Len(cell_log) < CellCount * THRESHOLD_COUNT

(* C17: for the n-th cell processed, (col,row) of some pass: the left cell *)
(* given to lerp_cell is NULL exactly when col = 0 and the bottom cell     *)
(* exactly when row = 0; otherwise the left cell is the cell (col-1,row)   *)
(* and the bottom cell the cell (col,row-1) as the same pass, with the     *)
(* same threshold, computed and interpolated them; the cell is written to  *)
(* cache column col % 2, so the current and the previous column are the    *)
(* two different columns of cell_column_cache and swap after each column.  *)
(* After a tick that returned the two cache columns hold the last two      *)
(* columns of cells of the last pass.                                      *)
C17_CacheInvariant ==
    LET cellrows == SAMPLE_GRID_ROW_COUNT - 1
    IN /\ \A n \in 1 .. Len(cell_log) :
             LET e == cell_log[n]
             IN /\ (e.left_cell = <<>>) <=> (e.col = 0)
                /\ (e.bottom_cell = <<>>) <=> (e.row = 0)
                /\ e.cache_id = e.col % 2
                /\ (e.col > 0) =>
                      /\ n - cellrows >= 1
                      /\ cell_log[n - cellrows].tid = e.tid
                      /\ cell_log[n - cellrows].threshold = e.threshold
                      /\ cell_log[n - cellrows].col = e.col - 1
                      /\ cell_log[n - cellrows].row = e.row
                      /\ cell_log[n - cellrows].cache_id = 1 - e.cache_id
                      /\ e.left_cell = << cell_log[n - cellrows].cell >>
                /\ (e.row > 0) =>
                      /\ cell_log[n - 1].tid = e.tid
                      /\ cell_log[n - 1].threshold = e.threshold
                      /\ cell_log[n - 1].col = e.col
                      /\ cell_log[n - 1].row = e.row - 1
                      /\ cell_log[n - 1].cache_id = e.cache_id
                      /\ e.bottom_cell = << cell_log[n - 1].cell >>
       /\ (status = "ready" /\ Extracted) =>
             \A e \in Entries :
                 (e.tid = THRESHOLD_COUNT - 1 /\ e.col >= SAMPLE_GRID_COL_COUNT - 3) =>
                     cell_column_cache[e.cache_id + 1][e.row] = e.cell

(* a cell with a left and a bottom neighbour, both with points of their    *)
(* own in use and different from each other                                *)
C17_Witness ==
    \E e \in Entries :
        /\ e.col = 1 /\ e.row = 1
        /\ e.left_cell # <<>> /\ e.bottom_cell # <<>>
        /\ e.left_cell # e.bottom_cell
        /\ UsesPoint(e.left_cell[1], CELL_POINT_R)
        /\ UsesPoint(e.bottom_cell[1], CELL_POINT_T)
        /\ e.tid > 0

(* the samples a processed cell reads: its four corners *)
SamplesRead(e) ==
    { <<e.col, e.row>>, <<e.col + 1, e.row>>, <<e.col + 1, e.row + 1>>, <<e.col, e.row + 1>> }

(* C18: the samples tick_grid recomputes are exactly those with            *)
(* 0 <= col < SAMPLE_GRID_COL_COUNT and 0 <= row < SAMPLE_GRID_ROW_COUNT,  *)
(* and every sample a sweep reads has its indices in these ranges, the     *)
(* largest read being col + 1 = cols - 1 and row + 1 = rows - 1; so the    *)
(* assertions of the sample accessors hold at every call.                  *)
C18_SampleIndicesInRange ==
    /\ DOMAIN grid = 0 .. (SAMPLE_GRID_COL_COUNT - 1)
    /\ \A col \in DOMAIN grid : DOMAIN grid[col] = 0 .. (SAMPLE_GRID_ROW_COUNT - 1)
    /\ \A e \in Entries : \A p \in SamplesRead(e) :
          /\ 0 <= p[1] /\ p[1] < SAMPLE_GRID_COL_COUNT
          /\ 0 <= p[2] /\ p[2] < SAMPLE_GRID_ROW_COUNT
    /\ (status = "ready" /\ Extracted) =>
          UNION { SamplesRead(e) : e \in Entries } =
              (0 .. (SAMPLE_GRID_COL_COUNT - 1)) \X (0 .. (SAMPLE_GRID_ROW_COUNT - 1))

(* a tick on a grid of 3 columns and 2 rows of samples that read the       *)
(* sample of the last column and the last row, (2,1)                       *)
C18_Witness ==
    /\ Extracted
    /\ SAMPLE_GRID_COL_COUNT = 3 /\ SAMPLE_GRID_ROW_COUNT = 2
    /\ \E e \in Entries : <<2, 1>> \in SamplesRead(e)
    /\ grid[2][1] # F(0)

(* a coordinate within the planes 0 and dim moved in by radius and out by  *)
(* one step                                                                *)
WithinReach(c, radius, dim) ==
    /\ radius - GLOB_POS_DELTA_M <= c
    /\ c <= dim - radius + GLOB_POS_DELTA_M

(* C19: every glob is placed with radius <= center <= dim - radius on each *)
(* axis, dim >= 2 * radius, and has direction components of magnitude at   *)
(* most 1; after any number of ticks its center is, on each axis, within   *)
(* [radius - step, dim - radius + step], step being GLOB_POS_DELTA_M, and  *)
(* is always the center before the tick translated by direction * step:    *)
(* never moved back onto a plane.  dim is the extent the code reflects at  *)
(* and places by, sample_grid_width_m on x and sample_grid_height_m on y.  *)
C19_BoundedPenetration ==
    \A i \in 1 .. Len(globbers) :
        LET g == globbers[i]
        IN /\ 2 * g.radius_m <= sample_grid_width_m
           /\ 2 * g.radius_m <= sample_grid_height_m
           /\ g.dir.x \in (-DirScale) .. DirScale
           /\ g.dir.y \in (-DirScale) .. DirScale
           /\ (ticks = 0) =>
                 /\ g.radius_m <= g.center_g_m.x
                 /\ g.center_g_m.x <= sample_grid_width_m - g.radius_m
                 /\ g.radius_m <= g.center_g_m.y
                 /\ g.center_g_m.y <= sample_grid_height_m - g.radius_m
           /\ WithinReach(g.center_g_m.x, g.radius_m, sample_grid_width_m)
           /\ WithinReach(g.center_g_m.y, g.radius_m, sample_grid_height_m)
           /\ Extracted => g.center_g_m = Moved(i).center_g_m

(* after two ticks or more, a glob whose center is a whole step nearer to  *)
(* the plane x = 0 than its radius: it was moving towards the plane, is    *)
(* left where the advance put it and is turned round                       *)
C19_Witness ==
    /\ ticks >= 2
    /\ \E i \in 1 .. Len(globbers) :
          /\ globbers[i].center_g_m.x = globbers[i].radius_m - GLOB_POS_DELTA_M
          /\ globbers[i].dir.x > 0
          /\ prev_globbers[i].dir.x < 0

(* the extent of the sampled grid on each axis: sample (col, row) lies at  *)
(* (col * CELL_SIZE_M, row * CELL_SIZE_M) from the grid's position, so the *)
(* last column is at GridExtentX and the last row at GridExtentY           *)
GridExtentX == (SAMPLE_GRID_COL_COUNT - 1) * CELL_SIZE_M
GridExtentY == (SAMPLE_GRID_ROW_COUNT - 1) * CELL_SIZE_M

(* C20: the extent used to reflect and to place the globs is, on the x     *)
(* axis, (cols - 1) * spacing and, on the y axis, (rows - 1) * spacing,    *)
(* for any cols and rows; so every glob is placed with its whole radius    *)
(* inside the sampled grid                                                 *)
C20_ExtentPerAxis ==
    /\ sample_grid_width_m = GridExtentX
    /\ sample_grid_height_m = GridExtentY
    /\ (ticks = 0) =>
          \A i \in 1 .. Len(globbers) :
              /\ globbers[i].center_g_m.x <= GridExtentX - globbers[i].radius_m
              /\ globbers[i].center_g_m.y <= GridExtentY - globbers[i].radius_m

(* the maximum the source states for the grid mesh: four vertices a cell,  *)
(* two components a vertex                                                 *)
GridMeshMax == (SAMPLE_GRID_ROW_COUNT - 1) * (SAMPLE_GRID_COL_COUNT - 1) * 4 * 2

EdgeCorners(e) ==
    IF e = CELL_POINT_L THEN <<CELL_WEIGHT_BL, CELL_WEIGHT_TL>>
    ELSE IF e = CELL_POINT_B THEN <<CELL_WEIGHT_BL, CELL_WEIGHT_BR>>
    ELSE IF e = CELL_POINT_R THEN <<CELL_WEIGHT_BR, CELL_WEIGHT_TR>>
    ELSE <<CELL_WEIGHT_TL, CELL_WEIGHT_TR>>

(* the edge is crossed in a cell of mask m: its two corners differ *)
Crossed(m, e) == HasBit(m, EdgeCorners(e)[1]) # HasBit(m, EdgeCorners(e)[2])

(* C22: for every mask m in 0..15 and every edge e of L, B, R, T, e is in  *)
(* row m of cell_lookup exactly when the two corners that bound e have     *)
(* different active bits in m, and no edge is twice in a row; and so, in   *)
(* every pass, a cell with a left (bottom) neighbour uses its left         *)
(* (bottom) point exactly when that neighbour, which shares the two        *)
(* corners, uses its right (top) point.                                    *)
C22_EdgeIffCornersDiffer ==
    LET cellrows == SAMPLE_GRID_ROW_COUNT - 1
        edges == {CELL_POINT_L, CELL_POINT_B, CELL_POINT_R, CELL_POINT_T}
    IN /\ \A m \in 0 .. 15 : \A e \in edges :
             /\ (\E i \in 1 .. 4 : cell_lookup[m + 1][i] = e) <=> Crossed(m, e)
             /\ Cardinality({ i \in 1 .. 4 : cell_lookup[m + 1][i] = e }) <= 1
       /\ \A n \in 1 .. Len(cell_log) :
             LET c == cell_log[n]
             IN /\ (c.col > 0) =>
                      /\ n - cellrows >= 1
                      /\ cell_log[n - cellrows].tid = c.tid
                      /\ cell_log[n - cellrows].col = c.col - 1
                      /\ cell_log[n - cellrows].row = c.row
                      /\ UsesPoint(c.cell, CELL_POINT_L)
                            <=> UsesPoint(cell_log[n - cellrows].cell, CELL_POINT_R)
                /\ (c.row > 0) =>
                      /\ cell_log[n - 1].tid = c.tid
                      /\ cell_log[n - 1].col = c.col
                      /\ cell_log[n - 1].row = c.row - 1
                      /\ UsesPoint(c.cell, CELL_POINT_B)
                            <=> UsesPoint(cell_log[n - 1].cell, CELL_POINT_T)

(* a pass with a cell that uses its left point and one that does not, each *)
(* with a left neighbour, and a cell that uses its bottom point and one    *)
(* that does not, each with a bottom neighbour                             *)
C22_Witness ==
    \E a, b, c, d \in Entries :
        /\ a.col > 0 /\ UsesPoint(a.cell, CELL_POINT_L)
        /\ b.col > 0 /\ ~UsesPoint(b.cell, CELL_POINT_L) /\ b.cell.state_mask \notin {0, 15}
        /\ c.row > 0 /\ UsesPoint(c.cell, CELL_POINT_B)
        /\ d.row > 0 /\ ~UsesPoint(d.cell, CELL_POINT_B) /\ d.cell.state_mask \notin {0, 15}
        /\ a.tid = b.tid /\ b.tid = c.tid /\ c.tid = d.tid

(* the pairs <<minor_weight, major_weight>> that lerp_cell hands to lerp   *)
(* for the cell of log entry e: a left or bottom point is interpolated     *)
(* only where there is no neighbour to copy it from                        *)
LerpsOf(e) ==
    LET s == e.cell.samples
    IN (IF UsesPoint(e.cell, CELL_POINT_L) /\ ~e.left
        THEN {<<s[CELL_WEIGHT_BL + 1], s[CELL_WEIGHT_TL + 1]>>} ELSE {})
       \cup (IF UsesPoint(e.cell, CELL_POINT_B) /\ ~e.bottom
             THEN {<<s[CELL_WEIGHT_BL + 1], s[CELL_WEIGHT_BR + 1]>>} ELSE {})
       \cup (IF UsesPoint(e.cell, CELL_POINT_R)
             THEN {<<s[CELL_WEIGHT_BR + 1], s[CELL_WEIGHT_TR + 1]>>} ELSE {})
       \cup (IF UsesPoint(e.cell, CELL_POINT_T)
             THEN {<<s[CELL_WEIGHT_TL + 1], s[CELL_WEIGHT_TR + 1]>>} ELSE {})

FiniteCell(e) == \A i \in 1 .. 4 : IsFin(e.cell.samples[i])

(* the threshold separates the finite weights a and b *)
Between(threshold, a, b) ==
    \/ a.v < threshold.v /\ threshold.v <= b.v
    \/ b.v < threshold.v /\ threshold.v <= a.v

(* a finite coordinate from lo to hi, in units of 1/FracScale of a length unit *)
CoordWithin(c, lo, hi) == IsFin(c) /\ lo * FracScale <= c.v /\ c.v <= hi * FracScale

(* the point p of a cell lies on the edge of the cell that p names *)
OnEdge(cell, p) ==
    LET pt == cell.points[p + 1]
    IN /\ CoordWithin(pt.x, 0, CELL_SIZE_M)
       /\ CoordWithin(pt.y, 0, CELL_SIZE_M)
       /\ (p = CELL_POINT_L) => pt.x = F(0)
       /\ (p = CELL_POINT_B) => pt.y = F(0)
       /\ (p = CELL_POINT_R) => pt.x = F(CELL_SIZE_M * FracScale)
       /\ (p = CELL_POINT_T) => pt.y = F(CELL_SIZE_M * FracScale)

(* C23: in every cell of a sweep whose four weights are finite, every lerp *)
(* evaluated has two different weights with the threshold between them,    *)
(* so that it divides by no zero; every point in use, interpolated or      *)
(* copied, has its coordinates in [0, CELL_SIZE_M] and lies on its edge of *)
(* the cell; and every point the cell emits is in the cell's square, so    *)
(* within [0, (cols-1) * CELL_SIZE_M] x [0, (rows-1) * CELL_SIZE_M].       *)
C23_LerpWithinCell ==
    \A e \in Entries :
        FiniteCell(e) =>
            /\ \A w \in LerpsOf(e) : w[1] # w[2] /\ Between(e.threshold, w[1], w[2])
            /\ \A i \in UsedSlots(e.cell.indices) : OnEdge(e.cell, e.cell.indices[i])
            /\ LET comps == CellComponents(e.cell, e.col, e.row, 0)
               IN \A k \in 1 .. (Len(comps) \div 2) :
                     /\ CoordWithin(comps[2 * k - 1], e.col * CELL_SIZE_M,
                                                      (e.col + 1) * CELL_SIZE_M)
                     /\ CoordWithin(comps[2 * k], e.row * CELL_SIZE_M,
                                                  (e.row + 1) * CELL_SIZE_M)
                     /\ e.col + 1 <= SAMPLE_GRID_COL_COUNT - 1
                     /\ e.row + 1 <= SAMPLE_GRID_ROW_COUNT - 1

(* a cell of finite weights, not in the first column or row, with a point  *)
(* interpolated strictly inside its edge and off the midpoint, and a point *)
(* copied from its left neighbour                                          *)
C23_Witness ==
    \E e \in Entries :
        /\ FiniteCell(e)
        /\ e.col > 0 /\ e.row > 0
        /\ UsesPoint(e.cell, CELL_POINT_L)
        /\ UsesPoint(e.cell, CELL_POINT_T)
        /\ e.cell.points[CELL_POINT_T + 1].x.v \notin
              {0, (CELL_SIZE_M * FracScale) \div 2, CELL_SIZE_M * FracScale}
        /\ e.cell.points[CELL_POINT_L + 1].y.v \notin
              {0, (CELL_SIZE_M * FracScale) \div 2, CELL_SIZE_M * FracScale}

Magnitude(n) == IF n < 0 THEN -n ELSE n

(* C24: a tick changes of each glob only its center and the signs of its   *)
(* direction components.  prev_globbers are the globbers before the last   *)
(* tick (those of init_metaballs before the first): in every state the     *)
(* number of globbers is GLOB_COUNT before and after, and each glob has    *)
(* the radius and the magnitudes of dir.x and dir.y it had before; so,     *)
(* tick after tick, those it had after init.  A process whose memory a     *)
(* write outside isolines_mesh has corrupted is not spoken for.            *)
C24_GlobFrame ==
    (status # "corrupt") =>
        /\ Len(globbers) = GLOB_COUNT
        /\ Len(prev_globbers) = GLOB_COUNT
        /\ \A i \in 1 .. Len(globbers) :
              /\ globbers[i].radius_m = prev_globbers[i].radius_m
              /\ Magnitude(globbers[i].dir.x) = Magnitude(prev_globbers[i].dir.x)
              /\ Magnitude(globbers[i].dir.y) = Magnitude(prev_globbers[i].dir.y)

(* a tick after the first that moved a glob on both axes and negated one   *)
(* component of its direction, the other kept                              *)
C24_Witness ==
    /\ ticks >= 2
    /\ status = "ready"
    /\ \E i \in 1 .. Len(globbers) :
          /\ globbers[i].center_g_m.x # prev_globbers[i].center_g_m.x
          /\ globbers[i].center_g_m.y # prev_globbers[i].center_g_m.y
          /\ globbers[i].dir.y = -prev_globbers[i].dir.y
          /\ globbers[i].dir.x = prev_globbers[i].dir.x

(* the last tick negated the x (y) component of the direction of glob i *)
FlippedX(i) ==
    globbers[i].dir.x # 0 /\ globbers[i].dir.x = -prev_globbers[i].dir.x
FlippedY(i) ==
    globbers[i].dir.y # 0 /\ globbers[i].dir.y = -prev_globbers[i].dir.y

(* the planes of an axis are far enough apart for the glob: dim is at      *)
(* least twice the radius and one step                                     *)
RoomOnAxis(glob, dim) == dim >= 2 * glob.radius_m + GLOB_POS_DELTA_M

(* C25: no tick negates a component of a glob's direction that the tick    *)
(* before negated, if on that axis dim >= 2 * radius + step; dim is the    *)
(* extent the code reflects at, sample_grid_width_m on x and               *)
(* sample_grid_height_m on y.                                              *)
C25_NoFlipOscillation ==
    [][ \A i \in 1 .. Len(globbers) :
          /\ (FlippedX(i) /\ RoomOnAxis(globbers[i], sample_grid_width_m)) =>
                globbers'[i].dir.x = globbers[i].dir.x
          /\ (FlippedY(i) /\ RoomOnAxis(globbers[i], sample_grid_height_m)) =>
                globbers'[i].dir.y = globbers[i].dir.y ]_vars

(* the tick after a tick that turned a glob round at the plane x = 0: the  *)
(* glob was left within its radius of the plane, heading away, and the     *)
(* tick moved it on without turning it again                               *)
C25_Witness ==
    /\ ticks >= 2
    /\ \E i \in 1 .. Len(globbers) :
          /\ RoomOnAxis(globbers[i], sample_grid_width_m)
          /\ prev_globbers[i].center_g_m.x < prev_globbers[i].radius_m
          /\ prev_globbers[i].dir.x > 0
          /\ globbers[i].dir.x = prev_globbers[i].dir.x
          /\ globbers[i].center_g_m.x > prev_globbers[i].center_g_m.x

====
